---- MODULE Spec2Model ----
(***************************************************************************)
(* Model of mos.py: a Streamlit page that walks each browser session       *)
(* through the audio catalog, appends one rating per submission to a       *)
(* shared Google Sheet and recomputes the per-file mean (MOS) into a local *)
(* summary file.                                                           *)
(*                                                                         *)
(* One script run of main() is split at the calls that touch the shared    *)
(* sheet or the shared summary file, so that runs of different sessions    *)
(* interleave there:                                                       *)
(*   idle --PageRun--> append --SaveRating--> agg_read --AggRead-->        *)
(*   agg_write --AggWrite--> advance --Advance--> idle                     *)
(***************************************************************************)
EXTENDS Integers, Sequences, FiniteSets, TLC

\* ------------------------------------------------------------------ bounds
\* longest sheet the aggregator is applied to in SpecAgg
MaxRows == 3
\* submissions (clicks on the form's button) followed over all sessions
MaxSubmissions == 2

\* --------------------------------------------------------------- constants
Sessions == {"s1", "s2"}

\* tokens uuid4()[:8] may yield, already prefixed with "user_"
Tokens == {"user_1a2b3c4d", "user_9f8e7d6c"}

\* entries that may sit in the audio folder, listed in ascending name order
DirEntries == <<
    [name |-> "a.wav", suffix |-> ".wav", is_file |-> TRUE],
    [name |-> "b.MP3", suffix |-> ".MP3", is_file |-> TRUE],
    [name |-> "c.txt", suffix |-> ".txt", is_file |-> TRUE],
    [name |-> "d.ogg", suffix |-> ".ogg", is_file |-> FALSE] >>

\* the folders followed: the two audio files come and go, the text file and
\* the directory named like an audio file stay
Folders == {X \cup {3, 4} : X \in SUBSET {1, 2}}

RATING_SCALE == [l \in {"1: Bad", "2: Poor", "3: Fair", "4: Good", "5: Excellent"} |->
    CASE l = "1: Bad" -> 1
      [] l = "2: Poor" -> 2
      [] l = "3: Fair" -> 3
      [] l = "4: Good" -> 4
      [] l = "5: Excellent" -> 5]

SESSION_KEYS == {"user_id", "current_audio_index", "ratings_submitted"}

VARIABLES
    folder,               \* entries present in AUDIO_FOLDER (indices of DirEntries)
    store,                \* rows of the "Ratings" worksheet
    summary,              \* mos_summary.csv: [exists, rows]
    pc,                   \* position of each session's script run
    session_keys,         \* keys present in st.session_state
    user_id,              \* st.session_state.user_id
    current_audio_index,  \* st.session_state.current_audio_index
    ratings_submitted,    \* st.session_state.ratings_submitted
    audio_files,          \* the run's local audio_files
    form_shown,           \* the rating form is on the page of the session
    new_data,             \* the row save_rating was called with
    df,                   \* update_mos_summary's cleaned frame
    errors,               \* st.error messages of the current run
    ops,                  \* sheet operations the current run got through
    saved,                \* history: successful appends of the session
    failed                \* history: failed appends of the session

vars == << folder, store, summary, pc, session_keys, user_id, current_audio_index,
           ratings_submitted, audio_files, form_shown, new_data, df, errors, ops,
           saved, failed >>

sessvars == << session_keys, user_id, current_audio_index, ratings_submitted >>

\* ------------------------------------------------------------ sheet cells
\* A cell of the rating column: a number, a text that parses as a number,
\* any other text ("N/A"), or a blank cell.
IntCell(n) == [kind |-> "int", val |-> n]
NumStrCell(n) == [kind |-> "numstr", val |-> n]
TextCell == [kind |-> "text", val |-> 0]
BlankCell == [kind |-> "blank", val |-> 0]

\* a blank audio_file cell is read back as NaN
NaNFile == ""

NoRow == [user_id |-> "", audio_file |-> NaNFile, rating |-> BlankCell]

Range(seq) == {seq[i] : i \in 1..Len(seq)}

\* --------------------------------------------------------- get_audio_files
Lower(sfx) == CASE sfx = ".MP3" -> ".mp3" [] OTHER -> sfx

supported_extensions == {".wav", ".mp3", ".ogg"}

RECURSIVE SortedNames(_)
SortedNames(S) ==
    IF S = {} THEN << >>
    ELSE LET m == CHOOSE i \in S : \A j \in S : i <= j
         IN << DirEntries[m].name >> \o SortedNames(S \ {m})

get_audio_files(dir) ==
    SortedNames({i \in dir : /\ Lower(DirEntries[i].suffix) \in supported_extensions
                             /\ DirEntries[i].is_file})

\* ------------------------------------------------------ update_mos_summary
\* a cell that is no number counts as a zero
to_numeric_Zero(cell) ==
    IF cell.kind \in {"int", "numstr"}
    THEN [nan |-> FALSE, val |-> cell.val]
    ELSE [nan |-> FALSE, val |-> 0]

\* pd.to_numeric(..., errors='coerce'): numbers and numeric text give their
\* value, everything else gives NaN.
to_numeric(cell) ==
    IF cell.kind \in {"int", "numstr"}
    THEN [nan |-> FALSE, val |-> cell.val]
    ELSE [nan |-> TRUE, val |-> 0]

\* df['rating'] = pd.to_numeric(df['rating'], errors='coerce')
CoerceRatings(sheet) ==
    [i \in 1..Len(sheet) |->
        [user_id |-> sheet[i].user_id, audio_file |-> sheet[i].audio_file,
         rating |-> to_numeric(sheet[i].rating)]]

\* df.dropna(subset=['rating'])
dropna(frame) == SelectSeq(frame, LAMBDA r : ~r.rating.nan)

CleanFrame(sheet) == dropna(CoerceRatings(sheet))

RECURSIVE GCD(_, _)
GCD(a, b) == IF b = 0 THEN a ELSE GCD(b, a % b)

\* a quotient of naturals, in lowest terms (4.0 is [num |-> 4, den |-> 1])
Quotient(n, d) == LET g == GCD(n, d) IN [num |-> n \div g, den |-> d \div g]

RECURSIVE SumRatings(_)
SumRatings(frame) ==
    IF frame = << >> THEN 0 ELSE Head(frame).rating.val + SumRatings(Tail(frame))

\* .sum() in place of .mean()
GroupMean_Sum(group) == Quotient(SumRatings(group), 1)

\* one group's .mean()
GroupMean(group) == Quotient(SumRatings(group), Len(group))

\* .first() in place of .mean()
mos_df_First(frame) ==
    { [audio_file |-> f,
       MOS |-> Quotient(Head(SelectSeq(frame, LAMBDA r : r.audio_file = f)).rating.val, 1)] :
      f \in {r.audio_file : r \in Range(frame)} \ {NaNFile} }

\* df.groupby('audio_file')['rating'].mean().reset_index(), MOS column renamed;
\* groupby leaves out the rows whose key is NaN
mos_df(frame) ==
    { [audio_file |-> f,
       MOS |-> GroupMean(SelectSeq(frame, LAMBDA r : r.audio_file = f))] :
      f \in {r.audio_file : r \in Range(frame)} \ {NaNFile} }

NoSummary == [exists |-> FALSE, rows |-> {}]

\* mos_df.to_csv(MOS_SUMMARY_FILE, ...)
to_csv(rows) == [exists |-> TRUE, rows |-> rows]

\* the worksheet is replaced by the new rows
conn_update_Replace(sheet, row) == << row >>

\* conn.update(worksheet=..., data=new_data), which the code takes to append
conn_update(sheet, row) == Append(sheet, row)

\* -------------------------------------------------------------------- main
Upd(f, s, v) == [f EXCEPT ![s] = v]

\* the session state is set up before the list is looked at
EmptyCatalogHalt_AfterSetup(s) ==
    /\ pc' = Upd(pc, s, "idle")
    /\ audio_files' = Upd(audio_files, s, << >>)
    /\ errors' = Upd(errors, s, {"no_audio_files"})
    /\ ops' = Upd(ops, s, {})
    /\ form_shown' = Upd(form_shown, s, FALSE)
    /\ new_data' = Upd(new_data, s, NoRow)
    /\ session_keys' = Upd(session_keys, s, SESSION_KEYS)
    /\ UNCHANGED << folder, store, summary, user_id, current_audio_index,
                    ratings_submitted, df, saved, failed >>

\* lines 121-126: no audio file: st.error and st.stop before anything else
EmptyCatalogHalt(s) ==
    /\ pc' = Upd(pc, s, "idle")
    /\ audio_files' = Upd(audio_files, s, << >>)
    /\ errors' = Upd(errors, s, {"no_audio_files"})
    /\ ops' = Upd(ops, s, {})
    /\ form_shown' = Upd(form_shown, s, FALSE)
    /\ new_data' = Upd(new_data, s, NoRow)
    /\ UNCHANGED << folder, store, summary, sessvars, df, saved, failed >>

\* the flag is recomputed from the index on every run
CompletionCheck_Recomputed(submitted, index, n) == index >= n

\* lines 177-180: the flag is raised when the index has run off the list,
\* and a raised flag stays
CompletionCheck(submitted, index, n) == submitted \/ index >= n

\* the option's position is stored instead of its score
NewData_Position(uid, file, label) ==
    [user_id |-> uid, audio_file |-> file, rating |-> IntCell(RATING_SCALE[label] - 1)]

\* lines 229-233 and 92-95: the row handed to save_rating
NewData(uid, file, label) ==
    [user_id |-> uid, audio_file |-> file, rating |-> IntCell(RATING_SCALE[label])]

\* lines 129-233 of a run that found audio files
RunBody(s, files, token, clicked, label, audio_ok) ==
    LET uid == IF "user_id" \in session_keys[s] THEN user_id[s] ELSE token
        index == IF "current_audio_index" \in session_keys[s]
                 THEN current_audio_index[s] ELSE 0
        flag == IF "ratings_submitted" \in session_keys[s]
                THEN ratings_submitted[s] ELSE FALSE
        done == CompletionCheck(flag, index, Len(files))
        form == ~done /\ audio_ok
    IN  /\ session_keys' = Upd(session_keys, s, SESSION_KEYS)
        /\ user_id' = Upd(user_id, s, uid)
        /\ current_audio_index' = Upd(current_audio_index, s, index)
        /\ ratings_submitted' = Upd(ratings_submitted, s, done)
        /\ audio_files' = Upd(audio_files, s, files)
        /\ ops' = Upd(ops, s, {"read"})
        /\ errors' = Upd(errors, s, IF ~done /\ ~audio_ok THEN {"audio_load_failed"} ELSE {})
        /\ IF form /\ clicked
           THEN /\ new_data' = Upd(new_data, s, NewData(uid, files[index + 1], label))
                /\ pc' = Upd(pc, s, "append")
                /\ form_shown' = Upd(form_shown, s, FALSE)
           ELSE /\ new_data' = Upd(new_data, s, NoRow)
                /\ pc' = Upd(pc, s, "idle")
                /\ form_shown' = Upd(form_shown, s, form)
        /\ UNCHANGED << folder, store, summary, df, saved, failed >>

RECURSIVE SumOver(_, _)
SumOver(f, S) ==
    IF S = {} THEN 0
    ELSE LET x == CHOOSE y \in S : TRUE IN f[x] + SumOver(f, S \ {x})

\* submissions so far: appends that ended, and those under way
Submissions ==
    SumOver(saved, Sessions) + SumOver(failed, Sessions)
    + Cardinality({s \in Sessions : pc[s] = "append"})

\* one script run of main() up to the call of save_rating; the submit button
\* reads True only in the run a click on the rendered form has triggered; a
\* token is drawn only when the session has none, and the radio stays on its
\* default, "3: Fair", unless the user has chosen and submitted
PageRun(s) ==
    /\ pc[s] = "idle"
    /\ \E clicked \in BOOLEAN, audio_ok \in BOOLEAN,
          token \in (IF "user_id" \in session_keys[s] THEN {user_id[s]} ELSE Tokens) :
       \E label \in (IF clicked THEN DOMAIN RATING_SCALE ELSE {"3: Fair"}) :
        /\ clicked => form_shown[s] /\ Submissions < MaxSubmissions
        /\ LET files == get_audio_files(folder)
           IN  IF files = << >>
               THEN EmptyCatalogHalt(s)
               ELSE RunBody(s, files, token, clicked, label, audio_ok)

\* save_rating, lines 90-101 and 106-108: the append, or its exception caught
SaveRating(s) ==
    /\ pc[s] = "append"
    /\ \/ /\ store' = conn_update(store, new_data[s])
          /\ ops' = Upd(ops, s, ops[s] \cup {"append"})
          /\ saved' = Upd(saved, s, saved[s] + 1)
          /\ pc' = Upd(pc, s, "agg_read")
          /\ UNCHANGED << errors, failed >>
       \/ /\ errors' = Upd(errors, s, errors[s] \cup {"save_failed"})
          /\ failed' = Upd(failed, s, failed[s] + 1)
          /\ pc' = Upd(pc, s, "advance")
          /\ UNCHANGED << store, ops, saved >>
    /\ UNCHANGED << folder, summary, sessvars, audio_files, form_shown, new_data, df >>

\* update_mos_summary, lines 65-72 and 81-84: read the sheet, clean it
AggRead(s) ==
    /\ pc[s] = "agg_read"
    /\ ops' = Upd(ops, s, ops[s] \cup {"read"})
    /\ \/ /\ errors' = Upd(errors, s, errors[s] \cup {"summary_failed"})
          /\ pc' = Upd(pc, s, "advance")
          /\ UNCHANGED df
       \/ /\ IF CleanFrame(store) = << >>
             THEN /\ pc' = Upd(pc, s, "advance")
                  /\ UNCHANGED df
             ELSE /\ df' = Upd(df, s, CleanFrame(store))
                  /\ pc' = Upd(pc, s, "agg_write")
          /\ UNCHANGED errors
    /\ UNCHANGED << folder, store, summary, sessvars, audio_files, form_shown,
                    new_data, saved, failed >>

\* the means are written into the worksheet instead of the summary file
AggWrite_IntoSheet(s) ==
    /\ pc[s] = "agg_write"
    /\ store' = << >>
    /\ df' = Upd(df, s, << >>)
    /\ pc' = Upd(pc, s, "advance")
    /\ UNCHANGED << folder, summary, sessvars, audio_files, form_shown, new_data,
                    errors, ops, saved, failed >>

\* update_mos_summary, lines 75-84: group, average, write the summary file
AggWrite(s) ==
    /\ pc[s] = "agg_write"
    /\ \/ /\ summary' = to_csv(mos_df(df[s]))
          /\ UNCHANGED errors
       \/ /\ errors' = Upd(errors, s, errors[s] \cup {"summary_failed"})
          /\ UNCHANGED summary
    /\ df' = Upd(df, s, << >>)
    /\ pc' = Upd(pc, s, "advance")
    /\ UNCHANGED << folder, store, sessvars, audio_files, form_shown, new_data,
                    ops, saved, failed >>

\* the flag is raised one file early
ReachedEnd_Early(index, n) == index >= n - 1

\* line 242: the stepped index has reached the end of the list
ReachedEnd(index, n) == index = n

\* lines 235-245: toast, step the index, raise the flag at the end of the list;
\* st.rerun() drops what the run had put on the page
Advance(s) ==
    /\ pc[s] = "advance"
    /\ current_audio_index' = Upd(current_audio_index, s, current_audio_index[s] + 1)
    /\ ratings_submitted' =
         Upd(ratings_submitted, s,
             IF ReachedEnd(current_audio_index[s] + 1, Len(audio_files[s]))
             THEN TRUE ELSE ratings_submitted[s])
    /\ pc' = Upd(pc, s, "idle")
    /\ new_data' = Upd(new_data, s, NoRow)
    /\ errors' = Upd(errors, s, {})
    /\ ops' = Upd(ops, s, {})
    /\ UNCHANGED << folder, store, summary, session_keys, user_id, audio_files,
                    form_shown, df, saved, failed >>

\* files are added to or removed from the audio folder between runs
FolderChange ==
    /\ folder' \in Folders
    /\ folder' # folder
    /\ UNCHANGED << store, summary, pc, sessvars, audio_files, form_shown, new_data,
                    df, errors, ops, saved, failed >>

\* ----------------------------------------------------------- specifications
InitSessions ==
    /\ session_keys = [s \in Sessions |-> {}]
    /\ user_id = [s \in Sessions |-> ""]
    /\ current_audio_index = [s \in Sessions |-> 0]
    /\ ratings_submitted = [s \in Sessions |-> FALSE]
    /\ audio_files = [s \in Sessions |-> << >>]
    /\ form_shown = [s \in Sessions |-> FALSE]
    /\ new_data = [s \in Sessions |-> NoRow]
    /\ df = [s \in Sessions |-> << >>]
    /\ errors = [s \in Sessions |-> {}]
    /\ ops = [s \in Sessions |-> {}]
    /\ saved = [s \in Sessions |-> 0]
    /\ failed = [s \in Sessions |-> 0]

Init ==
    /\ folder \in Folders
    /\ store = << >>
    /\ summary = NoSummary
    /\ pc = [s \in Sessions |-> "idle"]
    /\ InitSessions

\* the steps of one session
Step(s) ==
    \/ PageRun(s)
    \/ SaveRating(s)
    \/ AggRead(s)
    \/ AggWrite(s)
    \/ Advance(s)

Next == \E s \in Sessions : Step(s)

\* sessions over an audio folder that stays as it is
Spec == Init /\ [][Next]_vars

NextEnv == Step("s1") \/ FolderChange

\* one session over an audio folder that changes between its runs
SpecEnv == Init /\ [][NextEnv]_vars

\* what a worksheet filled by hand or by other tools may hold
RawRatings == {IntCell(n) : n \in 1..5} \cup {NumStrCell(4), TextCell, BlankCell}

RawRows == [user_id : {"u1"}, audio_file : {"a.wav", "b.MP3", NaNFile},
            rating : RawRatings]

Sheets == UNION {[1..n -> RawRows] : n \in 0..MaxRows}

InitAgg ==
    /\ folder = DOMAIN DirEntries
    /\ store \in Sheets
    /\ summary = NoSummary
    /\ pc = [s \in Sessions |-> IF s = "s1" THEN "agg_read" ELSE "idle"]
    /\ InitSessions

NextAgg == AggRead("s1") \/ AggWrite("s1")

\* update_mos_summary applied once to every worksheet of up to MaxRows rows
SpecAgg == InitAgg /\ [][NextAgg]_vars

\* ============================================================= properties
Catalog == get_audio_files(folder)

InSaveRating(s) == pc[s] \in {"append", "agg_read", "agg_write"}

\* ---------------------------------------------------------------------- C1
\* C1 (as claimed): a failed append leaves the session's index where it
\* was, so between runs the index counts the successful appends only: a
\* failure followed by a success on the same file has advanced it by 1.
C1_IndexCountsSavedRatings ==
    \A s \in Sessions : pc[s] = "idle" => current_audio_index[s] = saved[s]

\* ---------------------------------------------------------------------- C2
\* C2: over a fixed non-empty catalog of N files, a session none of whose
\* appends failed has, between runs, an index equal to the number of its
\* submissions, and its completion flag is raised exactly when that number
\* is N.
C2_IndexFollowsSubmissions ==
    \A s \in Sessions :
        (pc[s] = "idle" /\ failed[s] = 0 /\ Catalog # << >>) =>
            /\ current_audio_index[s] = saved[s]
            /\ ratings_submitted[s] <=> (saved[s] = Len(Catalog))

C2_Witness ==
    /\ Len(Catalog) = 2
    /\ pc["s1"] = "idle" /\ failed["s1"] = 0 /\ saved["s1"] = 2
    /\ current_audio_index["s1"] = 2 /\ ratings_submitted["s1"]

\* ---------------------------------------------------------------------- C4
\* C4: once a session's completion flag is raised, no step lowers it, lowers
\* the index, puts the rating form on the page or starts an append, whatever
\* the folder holds by then.
C4_CompleteIsTerminal ==
    [][\A s \in Sessions :
          ratings_submitted[s] =>
              /\ ratings_submitted'[s]
              /\ current_audio_index'[s] >= current_audio_index[s]
              /\ ~form_shown'[s]
              /\ pc'[s] # "append"]_vars

\* a completed session has run again over a list longer than its index
C4_Witness ==
    /\ ratings_submitted["s1"]
    /\ pc["s1"] = "idle"
    /\ Len(audio_files["s1"]) > current_audio_index["s1"]

\* ---------------------------------------------------------------------- C8
\* C8: a run that finds no audio file reports it and stops: it leaves the
\* session state as it was (absent keys stay absent), shows no form and
\* touches the sheet neither by a read nor by an append.
C8_HaltedRun ==
    \A s \in Sessions :
        "no_audio_files" \in errors[s] =>
            /\ pc[s] = "idle"
            /\ ops[s] = {}
            /\ ~form_shown[s]
            /\ new_data[s] = NoRow

C8_RunOnEmptyCatalog ==
    \A s \in Sessions :
        (pc[s] = "idle" /\ Catalog = << >>) =>
            /\ pc'[s] = "idle"
            /\ session_keys'[s] = session_keys[s]
            /\ user_id'[s] = user_id[s]
            /\ current_audio_index'[s] = current_audio_index[s]
            /\ ratings_submitted'[s] = ratings_submitted[s]
            /\ (errors'[s] # errors[s] \/ ops'[s] # ops[s] \/ form_shown'[s] # form_shown[s])
                  => "no_audio_files" \in errors'[s]

C8_EmptyCatalogHalts == []C8_HaltedRun /\ [][C8_RunOnEmptyCatalog]_vars

\* a session two files in finds the folder emptied
C8_Witness ==
    /\ "no_audio_files" \in errors["s1"]
    /\ session_keys["s1"] = SESSION_KEYS
    /\ current_audio_index["s1"] = 1
    /\ ~ratings_submitted["s1"]

\* --------------------------------------------------------------------- C10
\* C10: the row of every append a session attempts carries the session's
\* user_id, a score in 1..5 and the file at the session's index, which lies
\* inside the list; the session is not complete; over a fixed catalog of N
\* files it attempts at most N appends; and a user_id once generated is
\* never replaced.
C10_AppendRow ==
    \A s \in Sessions :
        /\ saved[s] + failed[s] + (IF pc[s] = "append" THEN 1 ELSE 0) <= Len(Catalog)
        /\ pc[s] = "append" =>
              /\ ~ratings_submitted[s]
              /\ current_audio_index[s] >= 0
              /\ current_audio_index[s] < Len(audio_files[s])
              /\ new_data[s].user_id = user_id[s]
              /\ user_id[s] \in Tokens
              /\ new_data[s].audio_file = audio_files[s][current_audio_index[s] + 1]
              /\ new_data[s].rating.kind = "int"
              /\ new_data[s].rating.val \in 1..5

C10_UserIdKept ==
    \A s \in Sessions : "user_id" \in session_keys[s] => user_id'[s] = user_id[s]

C10_SessionAppends == []C10_AppendRow /\ [][C10_UserIdKept]_vars

C10_Witness ==
    /\ pc["s1"] = "append"
    /\ current_audio_index["s1"] = 1
    /\ new_data["s1"].audio_file = "b.MP3"
    /\ new_data["s1"].rating.val = 5

\* ------------------------------------------- per-file means, stated directly
\* rows whose rating is a number
Numeric(sheet) == {i \in 1..Len(sheet) : sheet[i].rating.kind \in {"int", "numstr"}}

RowsOf(sheet, f) == {i \in Numeric(sheet) : sheet[i].audio_file = f}

RatedFiles(sheet) == {sheet[i].audio_file : i \in Numeric(sheet)} \ {NaNFile}

RECURSIVE ScoreSum(_, _)
ScoreSum(sheet, I) ==
    IF I = {} THEN 0
    ELSE LET i == CHOOSE j \in I : TRUE
         IN sheet[i].rating.val + ScoreSum(sheet, I \ {i})

\* sum / count with the least denominator
RefMean(sheet, f) ==
    LET n == ScoreSum(sheet, RowsOf(sheet, f))
        c == Cardinality(RowsOf(sheet, f))
        d == CHOOSE d \in 1..c :
                 /\ (n * d) % c = 0
                 /\ \A e \in 1..(d - 1) : (n * e) % c # 0
    IN [num |-> (n * d) \div c, den |-> d]

\* the summary file after a recomputation over the sheet got through
RefSummary(sheet) ==
    IF Numeric(sheet) = {} THEN NoSummary
    ELSE [exists |-> TRUE,
          rows |-> {[audio_file |-> f, MOS |-> RefMean(sheet, f)] : f \in RatedFiles(sheet)}]

Prefix(sheet, k) == SubSeq(sheet, 1, k)

Recomputed(s) == pc[s] = "advance" /\ "summary_failed" \notin errors[s]

\* ---------------------------------------------------------------------- C3
\* C3: an append is never lost: the sheet holds one row per successful
\* append and every session's last appended row; a recomputation that reads
\* the sheet works on the rows of every append that has ended by then, and
\* the means it writes are those of the rows it read.
C3_NoLostAppend ==
    /\ Len(store) = SumOver(saved, Sessions)
    /\ \A t \in Sessions : "append" \in ops[t] => new_data[t] \in Range(store)

C3_RecomputeSeesAppends ==
    \A s \in Sessions :
        /\ (pc[s] = "agg_read" /\ pc'[s] = "agg_write") =>
              \A t \in Sessions :
                  "append" \in ops[t] =>
                      \E i \in 1..Len(df'[s]) :
                          /\ df'[s][i].user_id = new_data[t].user_id
                          /\ df'[s][i].audio_file = new_data[t].audio_file
                          /\ df'[s][i].rating.val = new_data[t].rating.val
        /\ (pc[s] = "agg_write" /\ pc'[s] = "advance" /\ errors'[s] = errors[s]) =>
              \A f \in {df[s][i].audio_file : i \in 1..Len(df[s])} :
                  \E r \in summary'.rows :
                      /\ r.audio_file = f
                      /\ LET I == {i \in 1..Len(df[s]) : df[s][i].audio_file = f}
                         IN r.MOS.num * Cardinality(I) = r.MOS.den * ScoreSum(df[s], I)

C3_ConcurrentAppends == []C3_NoLostAppend /\ [][C3_RecomputeSeesAppends]_vars

\* both sessions are inside save_rating for the same file, both appends have
\* ended, and the frame one of them read holds both rows
C3_Witness ==
    /\ pc["s1"] = "agg_write" /\ pc["s2"] \in {"agg_read", "agg_write"}
    /\ new_data["s1"].audio_file = new_data["s2"].audio_file
    /\ new_data["s1"].rating.val = 3 /\ new_data["s2"].rating.val = 5
    /\ Len(df["s1"]) = 2
    /\ store = << new_data["s2"], new_data["s1"] >>

\* ---------------------------------------------------------------------- C5
\* C5: a recomputation that got through over a sheet with a numeric rating
\* leaves a summary; a summary has exactly one row for each file with a
\* numeric rating and none for any other, and the row's MOS is the sum of the
\* file's numeric ratings divided by their number.
C5_MeanPerFile ==
    /\ (Recomputed("s1") /\ Numeric(store) # {}) => summary.exists
    /\ summary.exists =>
          /\ {r.audio_file : r \in summary.rows} = RatedFiles(store)
          /\ Cardinality(summary.rows) = Cardinality(RatedFiles(store))
          /\ \A r \in summary.rows :
                /\ r.MOS.den > 0
                /\ r.MOS.num * Cardinality(RowsOf(store, r.audio_file))
                      = r.MOS.den * ScoreSum(store, RowsOf(store, r.audio_file))

C5_Witness ==
    /\ Len(store) = 3
    /\ \E p \in [1..3 -> 1..3] :
          /\ {p[1], p[2], p[3]} = 1..3
          /\ store[p[1]].audio_file = "a.wav" /\ store[p[1]].rating = IntCell(3)
          /\ store[p[2]].audio_file = "a.wav" /\ store[p[2]].rating = IntCell(5)
          /\ store[p[3]].audio_file = "b.MP3" /\ store[p[3]].rating = IntCell(4)
    /\ store[1].audio_file = "b.MP3"
    /\ summary = [exists |-> TRUE,
                  rows |-> {[audio_file |-> "a.wav", MOS |-> [num |-> 4, den |-> 1]],
                            [audio_file |-> "b.MP3", MOS |-> [num |-> 4, den |-> 1]]}]

\* ---------------------------------------------------------------------- C6
\* C6: after a recomputation that got through, the summary is the one of the
\* sheet without its rows whose rating is no number: such a row adds neither
\* to a sum nor to a count, and a sheet of such rows alone leaves the summary
\* as it was.
C6_MalformedDropped == Recomputed("s1") => summary = RefSummary(store)

C6_Witness ==
    /\ Recomputed("s1")
    /\ store = << [user_id |-> "u1", audio_file |-> "a.wav", rating |-> TextCell],
                  [user_id |-> "u1", audio_file |-> "a.wav", rating |-> IntCell(4)],
                  [user_id |-> "u1", audio_file |-> "b.MP3", rating |-> BlankCell] >>
    /\ summary.rows = {[audio_file |-> "a.wav", MOS |-> [num |-> 4, den |-> 1]]}

\* ---------------------------------------------------------------------- C7
\* C7: no step of update_mos_summary changes the sheet, whether it gets
\* through or fails, and the row save_rating appended before it is still
\* there afterwards.
C7_SummaryLeavesSheet ==
    [][\A s \in Sessions :
          (pc[s] \in {"agg_read", "agg_write"} /\ pc'[s] # pc[s]) =>
              /\ store' = store
              /\ new_data[s] \in Range(store')]_vars

\* a recomputation has failed after a successful append
C7_Witness ==
    /\ pc["s1"] = "advance"
    /\ "append" \in ops["s1"]
    /\ "summary_failed" \in errors["s1"]
    /\ new_data["s1"] \in Range(store)

\* ---------------------------------------------------------------------- C9
\* C9 (as claimed): whenever no session is inside save_rating, the summary
\* file is the one of the sheet without at most its last row.
C9_LacksAtMostOne ==
    (\A s \in Sessions : ~InSaveRating(s)) =>
        \E k \in 0..Len(store) :
            /\ k >= Len(store) - 1
            /\ summary = RefSummary(Prefix(store, k))

\* C9 (amended): the summary file is always the one of an earlier state of
\* the sheet, that is of some leading part of it; how many of the later rows
\* it lacks is not bounded by one.
C9_SummaryOfSnapshot ==
    \E k \in 0..Len(store) : summary = RefSummary(Prefix(store, k))

\* nobody is inside save_rating and the summary lacks the sheet's last row
C9_Witness ==
    /\ \A s \in Sessions : ~InSaveRating(s)
    /\ Len(store) = 2
    /\ summary.exists
    /\ summary = RefSummary(Prefix(store, 1))
    /\ summary # RefSummary(store)

====
